---- MODULE Spec2Model ----
(***************************************************************************)
(* dag-object: the bounded container StaticDAG<T, MaxNodes, MaxEdges> and  *)
(* the growable container DynamicDAG<T> of dag-object.cpp.  A host         *)
(* instantiates one of them; every call it makes is one action.            *)
(***************************************************************************)
EXTENDS Integers, Sequences, FiniteSets

\* Template parameters of the bounded container (StaticDAG<int, 10, 20> in the
\* demo program; smaller here).
MaxNodes == 3
MaxEdges == 3

\* static constexpr DagIndexType npos = -1: the all-ones value of the unsigned
\* index type.  Comparisons go through UGe, which orders it above every index.
npos == -1

UGe(a, b) == IF a = npos THEN TRUE ELSE IF b = npos THEN FALSE ELSE a >= b

\* const char* lastError: its initial value and the messages the code assigns
\* to it.
nullptr == "nullptr"
ErrNodePool == "Node pool full"
ErrInvalid == "Invalid node index"
ErrCycle == "Cycle detected"
ErrEdgePool == "Edge pool full"

\* Inputs of the host: payloads, edge flags, indices (valid, out of range, npos).
Payloads == {1}
FlagSet == {0, 1}
IdxSet == (0 .. MaxNodes) \cup {npos}

\* Edge filters (ReachableFn).  "nullptr" is the empty std::function, "all" the
\* always-true lambda, "flagged" a predicate on the edge's flags.  "absent"
\* is a call that leaves the argument out: each function has its own default.
FilterArgs == {"absent", "all", "flagged"}
ApplyFilter(filter, from, to, flags) ==
    IF filter = "flagged" THEN flags # 0 ELSE TRUE

\* variant: the container the host instantiated; dag: that container;
\* out: what the most recent query returned.
VARIABLES variant, dag, out
vars == <<variant, dag, out>>

----------------------------------------------------------------------------
(* StaticDAG *)

StaticNodeIdx == 0 .. (MaxNodes - 1)
StaticEdgeIdx == 0 .. (MaxEdges - 1)

\* std::array<Node, MaxNodes> nodes{}; std::array<Edge, MaxEdges> edges{};
\* edgeCount = 0; nodeCount = 0; lastError = nullptr
StaticInit ==
    [nodes |-> [i \in StaticNodeIdx |-> [data |-> 0, firstEdge |-> npos]],
     edges |-> [e \in StaticEdgeIdx |-> [to |-> 0, next |-> 0, flags |-> 0]],
     edgeCount |-> 0,
     nodeCount |-> 0,
     lastError |-> nullptr]

\* Static_clear that zeroes the counters only and leaves lastError as it is.
Static_clear_keepsError(s) ==
    [s EXCEPT !.edgeCount = 0, !.nodeCount = 0]

Static_clear(s) ==
    [s EXCEPT !.lastError = nullptr, !.edgeCount = 0, !.nodeCount = 0]

\* for (e = nodes[n].firstEdge; e != npos; e = edges[e].next): the edge indices
\* the loop visits, in the order it visits them.
RECURSIVE Static_chain(_, _)
Static_chain(s, e) ==
    IF e = npos THEN <<>> ELSE <<e>> \o Static_chain(s, s.edges[e].next)

Static_edgesOf(s, n) == Static_chain(s, s.nodes[n].firstEdge)

\* dfsReachable: seen is passed by reference, so the result carries it.  The
\* filter is invoked without a null test: an empty std::function throws
\* std::bad_function_call.
RECURSIVE Static_dfsReachable(_, _, _, _, _)
RECURSIVE Static_dfsLoop(_, _, _, _, _, _)
Static_dfsReachable(s, current, target, seen, filter) ==
    IF current = target THEN [ret |-> TRUE, thrown |-> FALSE, seen |-> seen]
    ELSE IF current \in seen THEN [ret |-> FALSE, thrown |-> FALSE, seen |-> seen]
    ELSE Static_dfsLoop(s, current, target, seen \cup {current}, filter,
                        Static_edgesOf(s, current))

Static_dfsLoop(s, current, target, seen, filter, chain) ==
    IF chain = <<>> THEN [ret |-> FALSE, thrown |-> FALSE, seen |-> seen]
    ELSE IF filter = "nullptr" THEN [ret |-> FALSE, thrown |-> TRUE, seen |-> seen]
    ELSE LET edge == s.edges[Head(chain)] IN
         IF ApplyFilter(filter, current, edge.to, edge.flags)
         THEN LET r == Static_dfsReachable(s, edge.to, target, seen, filter) IN
              IF r.thrown \/ r.ret THEN r
              ELSE Static_dfsLoop(s, current, target, r.seen, filter, Tail(chain))
         ELSE Static_dfsLoop(s, current, target, seen, filter, Tail(chain))

\* Static_reachable with a search that counts only paths of one edge or more.
Static_reachable_nonreflexive(s, from, target, filterArg) ==
    LET filter == IF filterArg = "absent" THEN "all" ELSE filterArg IN
    IF UGe(from, s.nodeCount) \/ UGe(target, s.nodeCount) \/ from = target
    THEN [ret |-> FALSE, thrown |-> FALSE]
    ELSE LET r == Static_dfsReachable(s, from, target, {}, filter) IN
         [ret |-> r.ret, thrown |-> r.thrown]

\* reachable(from, target, edgeFilter = always-true lambda)
Static_reachable(s, from, target, filterArg) ==
    LET filter == IF filterArg = "absent" THEN "all" ELSE filterArg IN
    IF UGe(from, s.nodeCount) \/ UGe(target, s.nodeCount)
    THEN [ret |-> FALSE, thrown |-> FALSE]
    ELSE LET r == Static_dfsReachable(s, from, target, {}, filter) IN
         [ret |-> r.ret, thrown |-> r.thrown]

\* Static_addNode with the capacity test off by one (> for >=).
Static_addNode_offByOne(s, data) ==
    IF s.nodeCount > MaxNodes
    THEN [s |-> [s EXCEPT !.lastError = ErrNodePool], ret |-> npos]
    ELSE [s |-> [s EXCEPT !.nodes = [i \in DOMAIN s.nodes |->
                                        IF i = s.nodeCount
                                        THEN [data |-> data, firstEdge |-> npos]
                                        ELSE s.nodes[i]],
                          !.nodeCount = s.nodeCount + 1],
          ret |-> s.nodeCount]

\* Static_addNode that stores the payload only and leaves the slot's firstEdge
\* as it finds it.
Static_addNode_keepsList(s, data) ==
    IF UGe(s.nodeCount, MaxNodes)
    THEN [s |-> [s EXCEPT !.lastError = ErrNodePool], ret |-> npos]
    ELSE [s |-> [s EXCEPT !.nodes[s.nodeCount].data = data,
                          !.nodeCount = s.nodeCount + 1],
          ret |-> s.nodeCount]

\* addNode: the new state and the returned index (npos on failure).
Static_addNode(s, data) ==
    IF UGe(s.nodeCount, MaxNodes)
    THEN [s |-> [s EXCEPT !.lastError = ErrNodePool], ret |-> npos]
    ELSE [s |-> [s EXCEPT !.nodes[s.nodeCount] = [data |-> data, firstEdge |-> npos],
                          !.nodeCount = s.nodeCount + 1],
          ret |-> s.nodeCount]

\* Static_addEdge with the arguments of the cycle check exchanged.
Static_addEdge_swapped(s, from, to, flags) ==
    IF UGe(from, s.nodeCount) \/ UGe(to, s.nodeCount)
    THEN [s |-> [s EXCEPT !.lastError = ErrInvalid], ret |-> FALSE]
    ELSE IF Static_reachable(s, from, to, "absent").ret
    THEN [s |-> [s EXCEPT !.lastError = ErrCycle], ret |-> FALSE]
    ELSE IF UGe(s.edgeCount, MaxEdges)
    THEN [s |-> [s EXCEPT !.lastError = ErrEdgePool], ret |-> FALSE]
    ELSE [s |-> [s EXCEPT !.edges[s.edgeCount] =
                              [to |-> to, next |-> s.nodes[from].firstEdge,
                               flags |-> flags],
                          !.nodes[from].firstEdge = s.edgeCount,
                          !.edgeCount = s.edgeCount + 1],
          ret |-> TRUE]

\* Static_addEdge that fills the next edge slot before the cycle check and
\* only withholds the counters when the check fails.
Static_addEdge_early(s, from, to, flags) ==
    IF UGe(from, s.nodeCount) \/ UGe(to, s.nodeCount)
    THEN [s |-> [s EXCEPT !.lastError = ErrInvalid], ret |-> FALSE]
    ELSE IF UGe(s.edgeCount, MaxEdges)
    THEN [s |-> [s EXCEPT !.lastError = ErrEdgePool], ret |-> FALSE]
    ELSE LET w == [s EXCEPT !.edges[s.edgeCount] =
                                [to |-> to, next |-> s.nodes[from].firstEdge,
                                 flags |-> flags]]
         IN  IF Static_reachable(s, to, from, "absent").ret
             THEN [s |-> [w EXCEPT !.lastError = ErrCycle], ret |-> FALSE]
             ELSE [s |-> [w EXCEPT !.nodes[from].firstEdge = s.edgeCount,
                                   !.edgeCount = s.edgeCount + 1],
                   ret |-> TRUE]

\* Static_addEdge that looks at the edge pool before the cycle check.
Static_addEdge_poolFirst(s, from, to, flags) ==
    IF UGe(from, s.nodeCount) \/ UGe(to, s.nodeCount)
    THEN [s |-> [s EXCEPT !.lastError = ErrInvalid], ret |-> FALSE]
    ELSE IF UGe(s.edgeCount, MaxEdges)
    THEN [s |-> [s EXCEPT !.lastError = ErrEdgePool], ret |-> FALSE]
    ELSE IF Static_reachable(s, to, from, "absent").ret
    THEN [s |-> [s EXCEPT !.lastError = ErrCycle], ret |-> FALSE]
    ELSE [s |-> [s EXCEPT !.edges[s.edgeCount] =
                              [to |-> to, next |-> s.nodes[from].firstEdge,
                               flags |-> flags],
                          !.nodes[from].firstEdge = s.edgeCount,
                          !.edgeCount = s.edgeCount + 1],
          ret |-> TRUE]

\* addEdge: the new state and whether a non-null pointer is returned.
Static_addEdge(s, from, to, flags) ==
    IF UGe(from, s.nodeCount) \/ UGe(to, s.nodeCount)
    THEN [s |-> [s EXCEPT !.lastError = ErrInvalid], ret |-> FALSE]
    ELSE IF Static_reachable(s, to, from, "absent").ret
    THEN [s |-> [s EXCEPT !.lastError = ErrCycle], ret |-> FALSE]
    ELSE IF UGe(s.edgeCount, MaxEdges)
    THEN [s |-> [s EXCEPT !.lastError = ErrEdgePool], ret |-> FALSE]
    ELSE [s |-> [s EXCEPT !.edges[s.edgeCount] =
                              [to |-> to, next |-> s.nodes[from].firstEdge,
                               flags |-> flags],
                          !.nodes[from].firstEdge = s.edgeCount,
                          !.edgeCount = s.edgeCount + 1],
          ret |-> TRUE]

----------------------------------------------------------------------------
(* DynamicDAG: nodes is a vector, kept as a sequence; node i is nodes[i + 1]. *)

DynamicInit == [nodes |-> <<>>, lastError |-> nullptr]

Dynamic_size(d) == Len(d.nodes)

Dynamic_clear(d) == [d EXCEPT !.lastError = nullptr, !.nodes = <<>>]

Dynamic_edgesOf(d, n) == d.nodes[n + 1].edges

RECURSIVE Dynamic_dfsReachable(_, _, _, _, _)
RECURSIVE Dynamic_dfsLoop(_, _, _, _, _, _)
Dynamic_dfsReachable(d, current, target, seen, filter) ==
    IF current = target THEN [ret |-> TRUE, seen |-> seen]
    ELSE IF current \in seen THEN [ret |-> FALSE, seen |-> seen]
    ELSE Dynamic_dfsLoop(d, current, target, seen \cup {current}, filter,
                         Dynamic_edgesOf(d, current))

\* Dynamic_dfsLoop that follows every edge, whatever the filter says.
RECURSIVE Dynamic_dfsLoop_unfiltered(_, _, _, _, _, _)
Dynamic_dfsLoop_unfiltered(d, current, target, seen, filter, list) ==
    IF list = <<>> THEN [ret |-> FALSE, seen |-> seen]
    ELSE LET r == Dynamic_dfsReachable(d, Head(list).to, target, seen, filter) IN
         IF r.ret THEN r
         ELSE Dynamic_dfsLoop_unfiltered(d, current, target, r.seen, filter,
                                         Tail(list))

Dynamic_dfsLoop(d, current, target, seen, filter, list) ==
    IF list = <<>> THEN [ret |-> FALSE, seen |-> seen]
    ELSE LET edge == Head(list) IN
         IF filter = "nullptr" \/ ApplyFilter(filter, current, edge.to, edge.flags)
         THEN LET r == Dynamic_dfsReachable(d, edge.to, target, seen, filter) IN
              IF r.ret THEN r
              ELSE Dynamic_dfsLoop(d, current, target, r.seen, filter, Tail(list))
         ELSE Dynamic_dfsLoop(d, current, target, seen, filter, Tail(list))

\* reachable(from, target, edgeFilter = nullptr)
Dynamic_reachable(d, from, target, filterArg) ==
    LET filter == IF filterArg = "absent" THEN "nullptr" ELSE filterArg IN
    IF UGe(from, Dynamic_size(d)) \/ UGe(target, Dynamic_size(d))
    THEN FALSE
    ELSE Dynamic_dfsReachable(d, from, target, {}, filter).ret

Dynamic_addNode(d, data) ==
    [d |-> [d EXCEPT !.nodes = Append(d.nodes, [data |-> data, edges |-> <<>>])],
     ret |-> Len(d.nodes)]

\* Dynamic_addEdge that keeps one edge per ordered pair: a second edge to the
\* same target overwrites the flags of the first.
Dynamic_addEdge_onePerPair(d, from, to, flags) ==
    IF UGe(from, Dynamic_size(d)) \/ UGe(to, Dynamic_size(d))
    THEN [d |-> [d EXCEPT !.lastError = ErrInvalid], ret |-> FALSE]
    ELSE IF Dynamic_reachable(d, to, from, "absent")
    THEN [d |-> [d EXCEPT !.lastError = ErrCycle], ret |-> FALSE]
    ELSE LET list == d.nodes[from + 1].edges IN
         IF \E k \in 1 .. Len(list) : list[k].to = to
         THEN [d |-> [d EXCEPT !.nodes[from + 1].edges =
                                   [k \in 1 .. Len(list) |->
                                       IF list[k].to = to
                                       THEN [to |-> to, flags |-> flags]
                                       ELSE list[k]]],
               ret |-> TRUE]
         ELSE [d |-> [d EXCEPT !.nodes[from + 1].edges =
                                   Append(@, [to |-> to, flags |-> flags])],
               ret |-> TRUE]

Dynamic_addEdge(d, from, to, flags) ==
    IF UGe(from, Dynamic_size(d)) \/ UGe(to, Dynamic_size(d))
    THEN [d |-> [d EXCEPT !.lastError = ErrInvalid], ret |-> FALSE]
    ELSE IF Dynamic_reachable(d, to, from, "absent")
    THEN [d |-> [d EXCEPT !.lastError = ErrCycle], ret |-> FALSE]
    ELSE [d |-> [d EXCEPT !.nodes[from + 1].edges =
                              Append(@, [to |-> to, flags |-> flags])],
          ret |-> TRUE]

----------------------------------------------------------------------------
(* topologicalSort (Kahn's algorithm), the same body in both containers. *)

\* Lines 145-153: indegree[edges[e].to]++ for every edge that passes.
RECURSIVE Static_countChain(_, _, _, _, _)
Static_countChain(s, i, chain, filter, indegree) ==
    IF chain = <<>> THEN indegree
    ELSE LET edge == s.edges[Head(chain)] IN
         Static_countChain(s, i, Tail(chain), filter,
            IF filter = "nullptr" \/ ApplyFilter(filter, i, edge.to, edge.flags)
            THEN [indegree EXCEPT ![edge.to] = @ + 1]
            ELSE indegree)

RECURSIVE Static_indegree(_, _, _, _)
Static_indegree(s, i, filter, indegree) ==
    IF i >= s.nodeCount THEN indegree
    ELSE Static_indegree(s, i + 1, filter,
            Static_countChain(s, i, Static_edgesOf(s, i), filter, indegree))

\* Line 156: the queue is seeded in ascending index order.
RECURSIVE SeedQueue(_, _, _)
SeedQueue(indegree, i, n) ==
    IF i >= n THEN <<>>
    ELSE (IF indegree[i] = 0 THEN <<i>> ELSE <<>>) \o SeedQueue(indegree, i + 1, n)

\* Lines 162-167: if (--indegree[to] == 0) q.push(to), along n's edges.
RECURSIVE Static_relax(_, _, _, _, _)
Static_relax(s, n, chain, filter, st) ==
    IF chain = <<>> THEN st
    ELSE LET edge == s.edges[Head(chain)] IN
         Static_relax(s, n, Tail(chain), filter,
            IF filter = "nullptr" \/ ApplyFilter(filter, n, edge.to, edge.flags)
            THEN [indegree |-> [st.indegree EXCEPT ![edge.to] = @ - 1],
                  q |-> IF st.indegree[edge.to] - 1 = 0
                        THEN Append(st.q, edge.to) ELSE st.q]
            ELSE st)

\* Lines 159-168: the while loop.
RECURSIVE Static_drain(_, _, _, _)
Static_drain(s, filter, st, order) ==
    IF st.q = <<>> THEN order
    ELSE LET n == Head(st.q) IN
         Static_drain(s, filter,
            Static_relax(s, n, Static_edgesOf(s, n), filter,
                         [indegree |-> st.indegree, q |-> Tail(st.q)]),
            Append(order, n))

\* topologicalSort(edgeFilter = nullptr)
Static_topologicalSort(s, filterArg) ==
    LET filter == IF filterArg = "absent" THEN "nullptr" ELSE filterArg
        indegree == Static_indegree(s, 0, filter,
                                    [v \in 0 .. (s.nodeCount - 1) |-> 0])
    IN  Static_drain(s, filter,
                     [indegree |-> indegree,
                      q |-> SeedQueue(indegree, 0, s.nodeCount)], <<>>)

RECURSIVE Dynamic_countList(_, _, _, _)
Dynamic_countList(i, list, filter, indegree) ==
    IF list = <<>> THEN indegree
    ELSE LET edge == Head(list) IN
         Dynamic_countList(i, Tail(list), filter,
            IF filter = "nullptr" \/ ApplyFilter(filter, i, edge.to, edge.flags)
            THEN [indegree EXCEPT ![edge.to] = @ + 1]
            ELSE indegree)

RECURSIVE Dynamic_indegree(_, _, _, _)
Dynamic_indegree(d, i, filter, indegree) ==
    IF i >= Dynamic_size(d) THEN indegree
    ELSE Dynamic_indegree(d, i + 1, filter,
            Dynamic_countList(i, Dynamic_edgesOf(d, i), filter, indegree))

\* Dynamic_relax with the test written indegree[to]-- == 0 (the value before
\* the decrement).
RECURSIVE Dynamic_relax_postfix(_, _, _, _)
Dynamic_relax_postfix(n, list, filter, st) ==
    IF list = <<>> THEN st
    ELSE LET edge == Head(list) IN
         Dynamic_relax_postfix(n, Tail(list), filter,
            IF filter = "nullptr" \/ ApplyFilter(filter, n, edge.to, edge.flags)
            THEN [indegree |-> [st.indegree EXCEPT ![edge.to] = @ - 1],
                  q |-> IF st.indegree[edge.to] = 0
                        THEN Append(st.q, edge.to) ELSE st.q]
            ELSE st)

RECURSIVE Dynamic_relax(_, _, _, _)
Dynamic_relax(n, list, filter, st) ==
    IF list = <<>> THEN st
    ELSE LET edge == Head(list) IN
         Dynamic_relax(n, Tail(list), filter,
            IF filter = "nullptr" \/ ApplyFilter(filter, n, edge.to, edge.flags)
            THEN [indegree |-> [st.indegree EXCEPT ![edge.to] = @ - 1],
                  q |-> IF st.indegree[edge.to] - 1 = 0
                        THEN Append(st.q, edge.to) ELSE st.q]
            ELSE st)

RECURSIVE Dynamic_drain(_, _, _, _)
Dynamic_drain(d, filter, st, order) ==
    IF st.q = <<>> THEN order
    ELSE LET n == Head(st.q) IN
         Dynamic_drain(d, filter,
            Dynamic_relax(n, Dynamic_edgesOf(d, n), filter,
                          [indegree |-> st.indegree, q |-> Tail(st.q)]),
            Append(order, n))

Dynamic_topologicalSort(d, filterArg) ==
    LET filter == IF filterArg = "absent" THEN "nullptr" ELSE filterArg
        indegree == Dynamic_indegree(d, 0, filter,
                                     [v \in 0 .. (Dynamic_size(d) - 1) |-> 0])
    IN  Dynamic_drain(d, filter,
                      [indegree |-> indegree,
                       q |-> SeedQueue(indegree, 0, Dynamic_size(d))], <<>>)

----------------------------------------------------------------------------
(* transitivelyReducePerNode *)

\* Lines 183-189: the loop over the other edges f of u, sharing one seen set.
RECURSIVE Static_altPath(_, _, _, _, _, _)
Static_altPath(s, chain, e, v, seen, filter) ==
    IF chain = <<>> THEN [ret |-> FALSE, thrown |-> FALSE]
    ELSE IF Head(chain) = e THEN Static_altPath(s, Tail(chain), e, v, seen, filter)
    ELSE LET r == Static_dfsReachable(s, s.edges[Head(chain)].to, v, seen, filter) IN
         IF r.thrown THEN [ret |-> FALSE, thrown |-> TRUE]
         ELSE IF r.ret THEN [ret |-> TRUE, thrown |-> FALSE]
         ELSE Static_altPath(s, Tail(chain), e, v, r.seen, filter)

\* Lines 178-193: the loop over the edges e of u; kept is reducedEdges[u].
RECURSIVE Static_reduceNode(_, _, _, _, _)
Static_reduceNode(s, u, rest, filter, kept) ==
    IF rest = <<>> THEN [kept |-> kept, thrown |-> FALSE]
    ELSE LET e == Head(rest)
             v == s.edges[e].to
             a == Static_altPath(s, Static_edgesOf(s, u), e, v, {}, filter)
         IN  IF a.thrown THEN [kept |-> kept, thrown |-> TRUE]
             ELSE Static_reduceNode(s, u, Tail(rest), filter,
                                    IF a.ret THEN kept ELSE Append(kept, v))

\* Lines 177-194: the loop over the topological order.
RECURSIVE Static_reduceAll(_, _, _, _)
Static_reduceAll(s, order, filter, reducedEdges) ==
    IF order = <<>> THEN [thrown |-> FALSE, reducedEdges |-> reducedEdges]
    ELSE LET u == Head(order)
             r == Static_reduceNode(s, u, Static_edgesOf(s, u), filter, <<>>)
         IN  IF r.thrown THEN [thrown |-> TRUE, reducedEdges |-> reducedEdges]
             ELSE Static_reduceAll(s, Tail(order), filter,
                                   [reducedEdges EXCEPT ![u] = r.kept])

\* transitivelyReducePerNode(edgeFilter = nullptr): the std::array of MaxNodes
\* vectors, or the exception that left the call.
Static_transitivelyReducePerNode(s, filterArg) ==
    LET filter == IF filterArg = "absent" THEN "nullptr" ELSE filterArg IN
    Static_reduceAll(s, Static_topologicalSort(s, filter), filter,
                     [u \in StaticNodeIdx |-> <<>>])

RECURSIVE Dynamic_altPath(_, _, _, _, _, _, _)
Dynamic_altPath(d, list, j, i, v, seen, filter) ==
    IF j > Len(list) THEN FALSE
    ELSE IF i = j THEN Dynamic_altPath(d, list, j + 1, i, v, seen, filter)
    ELSE LET r == Dynamic_dfsReachable(d, list[j].to, v, seen, filter) IN
         IF r.ret THEN TRUE
         ELSE Dynamic_altPath(d, list, j + 1, i, v, r.seen, filter)

RECURSIVE Dynamic_reduceNode(_, _, _, _, _)
Dynamic_reduceNode(d, u, i, filter, kept) ==
    LET list == Dynamic_edgesOf(d, u) IN
    IF i > Len(list) THEN kept
    ELSE LET v == list[i].to IN
         Dynamic_reduceNode(d, u, i + 1, filter,
            IF Dynamic_altPath(d, list, 1, i, v, {}, filter)
            THEN kept ELSE Append(kept, v))

RECURSIVE Dynamic_reduceAll(_, _, _, _)
Dynamic_reduceAll(d, order, filter, reducedEdges) ==
    IF order = <<>> THEN reducedEdges
    ELSE LET u == Head(order) IN
         Dynamic_reduceAll(d, Tail(order), filter,
            [reducedEdges EXCEPT ![u] = Dynamic_reduceNode(d, u, 1, filter, <<>>)])

\* transitivelyReducePerNode(edgeFilter = nullptr): a vector of nodes.size()
\* vectors.
Dynamic_transitivelyReducePerNode(d, filterArg) ==
    LET filter == IF filterArg = "absent" THEN "nullptr" ELSE filterArg IN
    Dynamic_reduceAll(d, Dynamic_topologicalSort(d, filter), filter,
                      [u \in 0 .. (Dynamic_size(d) - 1) |-> <<>>])

----------------------------------------------------------------------------
(* The host: it instantiates one of the two containers and calls it. *)

Variants == {"static", "dynamic"}

\* out while no result is waiting for the host.
NoCall == [op |-> "none"]
Idle == out.op = "none"

Init ==
    /\ variant \in Variants
    /\ dag = IF variant = "static" THEN StaticInit ELSE DynamicInit
    /\ out = NoCall

RECURSIVE SumLen(_, _)
SumLen(nodes, i) ==
    IF i > Len(nodes) THEN 0 ELSE Len(nodes[i].edges) + SumLen(nodes, i + 1)

\* nodeCount() and edgeCount() of either container.
NodeCount(v, g) == IF v = "static" THEN g.nodeCount ELSE Dynamic_size(g)
EdgeCount(v, g) == IF v = "static" THEN g.edgeCount ELSE SumLen(g.nodes, 1)

\* createNode, createEdge and reset on the container the host holds: the new
\* container g and what the call returns.
AddNode(v, g, data) ==
    IF v = "static"
    THEN LET r == Static_addNode(g, data) IN [g |-> r.s, ret |-> r.ret]
    ELSE LET r == Dynamic_addNode(g, data) IN [g |-> r.d, ret |-> r.ret]

AddEdge(v, g, from, to, flags) ==
    IF v = "static"
    THEN LET r == Static_addEdge(g, from, to, flags) IN [g |-> r.s, ret |-> r.ret]
    ELSE LET r == Dynamic_addEdge(g, from, to, flags) IN [g |-> r.d, ret |-> r.ret]

Clear(v, g) == IF v = "static" THEN Static_clear(g) ELSE Dynamic_clear(g)

\* The growable container has no limit of its own: the host stops adding to it
\* at MaxNodes nodes and MaxEdges edges.
CreateNode ==
    /\ Idle
    /\ variant = "dynamic" => Dynamic_size(dag) < MaxNodes
    /\ \E data \in Payloads :
          dag' = AddNode(variant, dag, data).g
    /\ out' = NoCall
    /\ UNCHANGED variant

CreateEdge ==
    /\ Idle
    /\ variant = "dynamic" => EdgeCount(variant, dag) < MaxEdges
    /\ \E from \in IdxSet, to \in IdxSet, flags \in FlagSet :
          dag' = AddEdge(variant, dag, from, to, flags).g
    /\ out' = NoCall
    /\ UNCHANGED variant

Reset ==
    /\ Idle
    /\ dag' = Clear(variant, dag)
    /\ out' = NoCall
    /\ UNCHANGED variant

\* The queries.  A query leaves the container as it is (the methods are
\* const) and hands its result to the host, which takes it before its next
\* call.
Reachable ==
    /\ Idle
    /\ \E from \in IdxSet, target \in IdxSet, filter \in FilterArgs :
          out' = [op |-> "reachable", from |-> from, target |-> target,
                  filter |-> filter,
                  ret |-> IF variant = "static"
                          THEN Static_reachable(dag, from, target, filter).ret
                          ELSE Dynamic_reachable(dag, from, target, filter)]
    /\ UNCHANGED <<variant, dag>>

TopologicalSort ==
    /\ Idle
    /\ \E filter \in FilterArgs :
          out' = [op |-> "topologicalSort", filter |-> filter,
                  ret |-> IF variant = "static"
                          THEN Static_topologicalSort(dag, filter)
                          ELSE Dynamic_topologicalSort(dag, filter)]
    /\ UNCHANGED <<variant, dag>>

\* ret is the per-node result; thrown tells that the call ended in
\* std::bad_function_call instead of returning.
TransitiveReduction ==
    /\ Idle
    /\ \E filter \in FilterArgs :
          out' = IF variant = "static"
                 THEN LET r == Static_transitivelyReducePerNode(dag, filter) IN
                      [op |-> "transitivelyReducePerNode", filter |-> filter,
                       thrown |-> r.thrown, ret |-> r.reducedEdges]
                 ELSE [op |-> "transitivelyReducePerNode", filter |-> filter,
                       thrown |-> FALSE,
                       ret |-> Dynamic_transitivelyReducePerNode(dag, filter)]
    /\ UNCHANGED <<variant, dag>>

Return ==
    /\ ~Idle
    /\ out' = NoCall
    /\ UNCHANGED <<variant, dag>>

\* The mutating calls: every container state the host can bring about.
Next ==
    \/ CreateNode
    \/ CreateEdge
    \/ Reset

Spec == Init /\ [][Next]_vars

\* Graphs built through createNode/createEdge, and the queries on them.
NextQuery ==
    \/ CreateNode
    \/ CreateEdge
    \/ Reachable
    \/ TopologicalSort
    \/ TransitiveReduction
    \/ Return

SpecQuery == Init /\ [][NextQuery]_vars

\* Every call the host can make, in any order.
NextAll ==
    \/ CreateNode
    \/ CreateEdge
    \/ Reset
    \/ Reachable
    \/ TopologicalSort
    \/ TransitiveReduction
    \/ Return

SpecAll == Init /\ [][NextAll]_vars

----------------------------------------------------------------------------
(* The stored graph as a caller sees it, written without the traversals    *)
(* above: the edge relation and its paths.                                 *)

Nodes(v, g) == 0 .. (NodeCount(v, g) - 1)

\* Node u's outgoing edges, [to, flags], in the order the container walks them.
OutEdges(v, g, u) ==
    IF v = "static"
    THEN LET chain == Static_edgesOf(g, u) IN
         [k \in 1 .. Len(chain) |->
             [to |-> g.edges[chain[k]].to, flags |-> g.edges[chain[k]].flags]]
    ELSE Dynamic_edgesOf(g, u)

Passes(filter, u, edge) ==
    filter \in {"absent", "nullptr"} \/ ApplyFilter(filter, u, edge.to, edge.flags)

\* The pairs (u, w) joined by a stored edge that passes the filter.
EdgeRel(v, g, filter) ==
    {p \in Nodes(v, g) \X Nodes(v, g) :
        \E k \in 1 .. Len(OutEdges(v, g, p[1])) :
            /\ OutEdges(v, g, p[1])[k].to = p[2]
            /\ Passes(filter, p[1], OutEdges(v, g, p[1])[k])}

\* The pairs joined by a path of length >= 1 in E.
RECURSIVE Paths(_, _)
Paths(E, R) ==
    LET R2 == R \cup {<<x[1][1], x[2][2]>> : x \in {y \in R \X E : y[1][2] = y[2][1]}}
    IN  IF R2 = R THEN R ELSE Paths(E, R2)

PathRel(v, g, filter) == LET E == EdgeRel(v, g, filter) IN Paths(E, E)

HasPath(v, g, filter, a, b) == <<a, b>> \in PathRel(v, g, filter)

Valid(v, g, i) == i \in Nodes(v, g)

\* g and h hold the same nodes and edges: they differ in lastError at most.
SameStorage(g, h) == h = [g EXCEPT !.lastError = h.lastError]

----------------------------------------------------------------------------
(* Claims *)

\* C1: after any sequence of createNode / createEdge / reset calls, accepted
\* or rejected, in either container, no node has a path of length >= 1 back
\* to itself (no cycle, no self-loop).
C1_Acyclic ==
    LET P == PathRel(variant, dag, "all") IN
    \A n \in Nodes(variant, dag) : <<n, n>> \notin P

\* A cycle-closing edge was refused on a graph that holds a two-edge path.
C1_Witness ==
    /\ dag.lastError = ErrCycle
    /\ \E a, b, c \in Nodes(variant, dag) :
          /\ a # b /\ b # c /\ a # c
          /\ <<a, b>> \in EdgeRel(variant, dag, "all")
          /\ <<b, c>> \in EdgeRel(variant, dag, "all")

\* C2: a createEdge call that is rejected, whatever the reason, leaves node
\* count, edge count and every stored edge as they were; only lastError may
\* change.
C2_RejectedEdgeLeavesStorage ==
    \A from \in IdxSet, to \in IdxSet, flags \in FlagSet :
        LET r == AddEdge(variant, dag, from, to, flags) IN
        ~r.ret =>
            /\ SameStorage(dag, r.g)
            /\ NodeCount(variant, r.g) = NodeCount(variant, dag)
            /\ EdgeCount(variant, r.g) = EdgeCount(variant, dag)
            /\ \A u \in Nodes(variant, dag) :
                  OutEdges(variant, r.g, u) = OutEdges(variant, dag, u)

\* A full bounded container that has just refused an edge for lack of room
\* (so calls of all three rejection kinds are refused from here).
C2_Witness ==
    /\ variant = "static"
    /\ dag.edgeCount = MaxEdges
    /\ dag.lastError = ErrEdgePool

\* C3: createEdge(from, to) is rejected as a cycle exactly when both indices
\* are valid and to reaches from (to = from included); a valid edge whose
\* target does not reach its source is accepted whenever room remains.
C3_CycleExactly ==
    LET P == PathRel(variant, dag, "all") IN
    \A from \in IdxSet, to \in IdxSet, flags \in FlagSet :
        LET r == AddEdge(variant, dag, from, to, flags)
            bothValid == Valid(variant, dag, from) /\ Valid(variant, dag, to)
            closes == to = from \/ <<to, from>> \in P
            room == variant = "static" => dag.edgeCount < MaxEdges
        IN  /\ (~r.ret /\ r.g.lastError = ErrCycle) <=> (bothValid /\ closes)
            /\ (bothValid /\ ~closes /\ room) => r.ret

\* A container with nodes and no edge at all whose last call was refused as a
\* cycle: a first self-loop on a fresh node.
C3_Witness ==
    /\ NodeCount(variant, dag) >= 2
    /\ EdgeCount(variant, dag) = 0
    /\ dag.lastError = ErrCycle

\* C9: in the bounded container the node count never exceeds MaxNodes and the
\* edge count never exceeds MaxEdges; createNode at MaxNodes nodes returns
\* npos, createEdge at MaxEdges edges fails, and each leaves the counts and
\* all stored nodes and edges unchanged.
C9_BoundedCapacity ==
    variant = "static" =>
        /\ dag.nodeCount <= MaxNodes
        /\ dag.edgeCount <= MaxEdges
        /\ dag.nodeCount = MaxNodes =>
              \A data \in Payloads :
                  LET r == Static_addNode(dag, data) IN
                  r.ret = npos /\ SameStorage(dag, r.s)
        /\ dag.edgeCount = MaxEdges =>
              \A from \in IdxSet, to \in IdxSet, flags \in FlagSet :
                  LET r == Static_addEdge(dag, from, to, flags) IN
                  ~r.ret /\ SameStorage(dag, r.s)

\* A bounded container full of nodes and of edges that has just refused a node.
C9_Witness ==
    /\ variant = "static"
    /\ dag.nodeCount = MaxNodes
    /\ dag.edgeCount = MaxEdges
    /\ dag.lastError = ErrNodePool

\* The edges a caller can reach are the edges inserted since the container was
\* last empty: in the bounded container the lists of the existing nodes hold
\* each slot below edgeCount exactly once and no other slot.
VisibleEdgesAreCurrent(v, g) ==
    v = "static" =>
        /\ \A u \in Nodes(v, g) : \A k \in 1 .. Len(Static_edgesOf(g, u)) :
              Static_edgesOf(g, u)[k] \in 0 .. (g.edgeCount - 1)
        /\ \A e \in 0 .. (g.edgeCount - 1) :
              Cardinality({<<u, k>> \in Nodes(v, g) \X (1 .. MaxEdges) :
                              /\ k <= Len(Static_edgesOf(g, u))
                              /\ Static_edgesOf(g, u)[k] = e}) = 1

\* C10: reset() leaves node count and edge count 0; createEdge then rejects
\* every index as invalid until nodes are created again; nodes created
\* afterwards are numbered from 0 again and start without outgoing edges, so
\* no edge from before the reset is seen by any traversal.
C10_ResetEmpties ==
    LET c == Clear(variant, dag) IN
    /\ NodeCount(variant, c) = 0
    /\ EdgeCount(variant, c) = 0
    /\ \A from \in IdxSet, to \in IdxSet, flags \in FlagSet :
          LET r == AddEdge(variant, c, from, to, flags) IN
          ~r.ret /\ r.g.lastError = ErrInvalid
    /\ \A data \in Payloads :
          LET r == AddNode(variant, c, data) IN
          r.ret = 0 /\ OutEdges(variant, r.g, 0) = <<>>
    /\ \A data \in Payloads :
          LET r == AddNode(variant, dag, data) IN
          r.ret # npos =>
              /\ r.ret = NodeCount(variant, dag)
              /\ OutEdges(variant, r.g, r.ret) = <<>>
    /\ \A from \in IdxSet, to \in IdxSet, flags \in FlagSet :
          (~Valid(variant, dag, from) \/ ~Valid(variant, dag, to)) =>
              LET r == AddEdge(variant, dag, from, to, flags) IN
              ~r.ret /\ r.g.lastError = ErrInvalid
    /\ VisibleEdgesAreCurrent(variant, dag)

\* A bounded container that was reset and given new nodes and a new edge,
\* while slots beyond its counts still hold a node with an edge list and an
\* edge from before the reset.
C10_Witness ==
    /\ variant = "static"
    /\ dag.nodeCount = 2
    /\ dag.edgeCount = 1
    /\ dag.nodes[2].firstEdge # npos
    /\ dag.edges[2].to # 0

\* The place of node n in a sequence that holds it.
Pos(order, n) == CHOOSE i \in 1 .. Len(order) : order[i] = n

IsTopological(v, g, filter, order) ==
    /\ Len(order) = NodeCount(v, g)
    /\ {order[i] : i \in 1 .. Len(order)} = Nodes(v, g)
    /\ \A p \in EdgeRel(v, g, filter) : Pos(order, p[1]) < Pos(order, p[2])

\* C4: for every graph built through createNode/createEdge and every filter,
\* topologicalSort(filter) returns every existing node exactly once, and for
\* every stored edge (u, v) that passes the filter u comes before v.
C4_TopologicalValid ==
    out.op = "topologicalSort" =>
        IsTopological(variant, dag, out.filter, out.ret)

\* A filtered sort of a full graph in which some edge passes the filter, some
\* edge does not, and a passing edge runs from a higher index to a lower one.
C4_Witness ==
    /\ out.op = "topologicalSort"
    /\ out.filter = "flagged"
    /\ NodeCount(variant, dag) = MaxNodes
    /\ EdgeRel(variant, dag, "flagged") # EdgeRel(variant, dag, "all")
    /\ \E p \in EdgeRel(variant, dag, "flagged") : p[1] > p[2]

\* The growable container that received the same accepted insertions as g: the
\* nodes in index order, then the edges in the order they were inserted (in
\* the bounded container, the order of the edge slots).
Static_owner(s, e) ==
    CHOOSE u \in 0 .. (s.nodeCount - 1) :
        \E k \in 1 .. Len(Static_edgesOf(s, u)) : Static_edgesOf(s, u)[k] = e

RECURSIVE ReplayNodes(_, _, _)
ReplayNodes(d, s, i) ==
    IF i >= s.nodeCount THEN d
    ELSE ReplayNodes(Dynamic_addNode(d, s.nodes[i].data).d, s, i + 1)

RECURSIVE ReplayEdges(_, _, _)
ReplayEdges(d, s, e) ==
    IF e >= s.edgeCount THEN d
    ELSE ReplayEdges(Dynamic_addEdge(d, Static_owner(s, e), s.edges[e].to,
                                     s.edges[e].flags).d, s, e + 1)

Growable(v, g) ==
    IF v = "dynamic" THEN g
    ELSE ReplayEdges(ReplayNodes(DynamicInit, g, 0), g, 0)

\* C5: for the same node and edge insertions the bounded and the growable
\* container return the same topologicalSort sequence: the one obtained by
\* seeding the queue in ascending index order and visiting each dequeued
\* node's out-neighbours in insertion order.
C5_SameOrderInBothVariants ==
    out.op = "topologicalSort" =>
        out.ret = Dynamic_topologicalSort(Growable(variant, dag), out.filter)

\* Node u's kept successors as the claim defines them: the targets of the
\* edges (u, v) for which no other edge (u, w) of u has w = v or a path from w
\* to v.
RECURSIVE Targets(_, _, _)
Targets(es, K, i) ==
    IF i > Len(es) THEN <<>>
    ELSE (IF i \in K THEN <<es[i].to>> ELSE <<>>) \o Targets(es, K, i + 1)

KeptByDefinition(v, g, u) ==
    LET es == OutEdges(v, g, u)
        P == PathRel(v, g, "all")
        K == {i \in 1 .. Len(es) :
                ~\E j \in 1 .. Len(es) :
                    /\ j # i
                    /\ (es[j].to = es[i].to \/ <<es[j].to, es[i].to>> \in P)}
    IN  Targets(es, K, 1)

ReductionSound(v, g, ret) ==
    /\ \A u \in Nodes(v, g) : ret[u] = KeptByDefinition(v, g, u)
    /\ \A u \in DOMAIN ret : u \notin Nodes(v, g) => ret[u] = <<>>

\* C6: transitiveReduction() with no filter yields a result in which an edge
\* (u, v) is kept if and only if no other outgoing edge (u, w) of u has
\* reachable(w, v).
C6_ReductionSound ==
    (out.op = "transitivelyReducePerNode" /\ out.filter = "absent") =>
        ~out.thrown /\ ReductionSound(variant, dag, out.ret)

\* The part of C6 that the code keeps: every reduction that returns, with no
\* filter or with the always-true one, is sound in this sense.
C6_ReturnedReductionSound ==
    (out.op = "transitivelyReducePerNode" /\ out.filter \in {"absent", "all"}
        /\ ~out.thrown) =>
        ReductionSound(variant, dag, out.ret)

\* C7: the transitive reduction called without a filter completes normally
\* and returns a per-node result, in the bounded container as in the
\* growable one: the absent filter is never invoked.
C7_NoFilterReductionReturns ==
    (out.op = "transitivelyReducePerNode" /\ out.filter = "absent") =>
        ~out.thrown

\* C8: reachable(from, target, filter) is true exactly when both indices are
\* below the node count and from = target or a path of stored edges that pass
\* the filter leads from from to target; an out-of-range index gives false.
C8_ReachableExactly ==
    out.op = "reachable" =>
        out.ret = (/\ Valid(variant, dag, out.from)
                   /\ Valid(variant, dag, out.target)
                   /\ \/ out.from = out.target
                      \/ HasPath(variant, dag, out.filter, out.from, out.target))

\* A filtered query answered true although no single passing edge joins the
\* two nodes (the path has two edges or more), on a graph where the filter
\* removes some edge.
C8_Witness ==
    /\ out.op = "reachable"
    /\ out.filter = "flagged"
    /\ out.ret
    /\ out.from # out.target
    /\ <<out.from, out.target>> \notin EdgeRel(variant, dag, "flagged")
    /\ EdgeRel(variant, dag, "flagged") # EdgeRel(variant, dag, "all")

\* seq without its k-th element.
RemoveAt(seq, k) == SubSeq(seq, 1, k - 1) \o SubSeq(seq, k + 1, Len(seq))

\* C11: a successful createEdge(from, to, flags) adds exactly one edge
\* (to, flags) to from's edge list and raises the edge count by one, also when
\* an edge between the same ordered pair is already stored; the node count,
\* every other node's edge list and the edges from already held (their
\* targets, flags and relative order) are unchanged.
C11_AcceptedEdgeAddsOne ==
    \A from \in IdxSet, to \in IdxSet, flags \in FlagSet :
        LET r == AddEdge(variant, dag, from, to, flags)
            before == OutEdges(variant, dag, from)
            after == OutEdges(variant, r.g, from)
        IN  r.ret =>
              /\ EdgeCount(variant, r.g) = EdgeCount(variant, dag) + 1
              /\ NodeCount(variant, r.g) = NodeCount(variant, dag)
              /\ \A u \in Nodes(variant, dag) \ {from} :
                    OutEdges(variant, r.g, u) = OutEdges(variant, dag, u)
              /\ Len(after) = Len(before) + 1
              /\ \E k \in 1 .. Len(after) :
                    /\ after[k] = [to |-> to, flags |-> flags]
                    /\ RemoveAt(after, k) = before

\* Two edges between the same ordered pair are stored side by side, each with
\* its own flags.
C11_Witness ==
    \E u \in Nodes(variant, dag) :
        LET es == OutEdges(variant, dag, u) IN
        \E i, j \in 1 .. Len(es) :
            i # j /\ es[i].to = es[j].to /\ es[i].flags # es[j].flags

\* The pairs (u, v) with v among u's kept successors in a reduction result.
KeptRel(v, g, ret) ==
    {p \in Nodes(v, g) \X Nodes(v, g) :
        \E k \in 1 .. Len(ret[p[1]]) : ret[p[1]][k] = p[2]}

\* How often target w occurs in a sequence of targets / of edges.
CountTargets(seq, w) == Cardinality({k \in 1 .. Len(seq) : seq[k] = w})
CountEdgesTo(es, w) == Cardinality({k \in 1 .. Len(es) : es[k].to = w})

ParallelEdges(v, g) ==
    \E u \in Nodes(v, g) : \E w \in Nodes(v, g) :
        CountEdgesTo(OutEdges(v, g, u), w) >= 2

\* Every omitted edge (u, w) has a path of two edges or more from u to w that
\* starts with another edge of u, and every stored edge's target is reachable
\* from its source over kept edges.
ReductionPreservesReach(v, g, ret) ==
    LET P == PathRel(v, g, "all")
        K == KeptRel(v, g, ret)
        KP == Paths(K, K)
    IN  /\ \A u \in Nodes(v, g) : \A w \in Nodes(v, g) :
              CountTargets(ret[u], w) < CountEdgesTo(OutEdges(v, g, u), w) =>
                  \E j \in 1 .. Len(OutEdges(v, g, u)) :
                      /\ OutEdges(v, g, u)[j].to # w
                      /\ <<OutEdges(v, g, u)[j].to, w>> \in P
        /\ EdgeRel(v, g, "all") \subseteq KP

\* C12: every edge (u, v) that the reduction omits is justified by a path of
\* length >= 2 from u to v whose first hop is another outgoing edge of u;
\* so for every graph, graphs with parallel edges included, and every stored
\* edge (u, v), v is still reachable from u over the edges the result keeps.
C12_ReductionPreservesReach ==
    (out.op = "transitivelyReducePerNode" /\ out.filter \in {"absent", "all"}
        /\ ~out.thrown) =>
        ReductionPreservesReach(variant, dag, out.ret)

\* The same on graphs that hold at most one edge per ordered pair.
C12_PreservesReachWithoutParallelEdges ==
    (out.op = "transitivelyReducePerNode" /\ out.filter \in {"absent", "all"}
        /\ ~out.thrown /\ ~ParallelEdges(variant, dag)) =>
        ReductionPreservesReach(variant, dag, out.ret)

\* The graph that holds g's nodes and only the edges of g that pass the
\* filter, in the same container: the growable one with every list cut down
\* to its passing edges, the bounded one filled again with the passing edges
\* in the order of their slots.
Dynamic_subgraph(d, filter) ==
    [d EXCEPT !.nodes =
        [n \in 1 .. Len(d.nodes) |->
            LET Keep(edge) == Passes(filter, n - 1, edge) IN
            [d.nodes[n] EXCEPT !.edges = SelectSeq(d.nodes[n].edges, Keep)]]]

RECURSIVE Static_refill(_, _, _, _)
Static_refill(sub, s, filter, e) ==
    IF e >= s.edgeCount THEN sub
    ELSE LET u == Static_owner(s, e)
             edge == s.edges[e]
         IN  Static_refill(IF Passes(filter, u, edge)
                           THEN Static_addEdge(sub, u, edge.to, edge.flags).s
                           ELSE sub,
                           s, filter, e + 1)

Static_subgraph(s, filter) ==
    Static_refill([s EXCEPT !.edgeCount = 0,
                            !.nodes = [i \in DOMAIN s.nodes |->
                                          [s.nodes[i] EXCEPT !.firstEdge = npos]]],
                  s, filter, 0)

\* The reduction of that graph with every edge considered.  (The bounded
\* container is asked with the always-true filter, which returns.)
SubgraphReduction(v, g, filter) ==
    IF v = "static"
    THEN Static_transitivelyReducePerNode(Static_subgraph(g, filter), "all").reducedEdges
    ELSE Dynamic_transitivelyReducePerNode(Dynamic_subgraph(g, filter), "absent")

\* C13: for every graph and every edge filter, transitiveReduction(filter)
\* equals the unfiltered reduction of the graph that holds only the
\* filter-passing edges: no edge that fails the filter is among the kept
\* successors, and none serves as the first hop that makes another edge
\* redundant.
C13_FilteredReductionIsSubgraphLocal ==
    (out.op = "transitivelyReducePerNode" /\ ~out.thrown) =>
        out.ret = SubgraphReduction(variant, dag, out.filter)

\* C13's "in particular": every kept successor is the target of an edge that
\* passes the filter.
C13_KeptEdgesPassFilter ==
    (out.op = "transitivelyReducePerNode" /\ ~out.thrown) =>
        KeptRel(variant, dag, out.ret) \subseteq EdgeRel(variant, dag, out.filter)

\* C14: createEdge checks in a fixed order and reports the first check that
\* fails: an out-of-range from or to gives the invalid-index error even when
\* the edge pool is full; otherwise an edge whose target reaches its source
\* gives the cycle error even when the pool is full; the capacity error is
\* given only for a valid edge that closes no cycle, when the bounded pool is
\* full.
C14_FirstFailingCheck ==
    LET P == PathRel(variant, dag, "all") IN
    \A from \in IdxSet, to \in IdxSet, flags \in FlagSet :
        LET r == AddEdge(variant, dag, from, to, flags)
            bothValid == Valid(variant, dag, from) /\ Valid(variant, dag, to)
            closes == to = from \/ <<to, from>> \in P
            full == variant = "static" /\ dag.edgeCount = MaxEdges
        IN  /\ ~bothValid => (~r.ret /\ r.g.lastError = ErrInvalid)
            /\ (bothValid /\ closes) => (~r.ret /\ r.g.lastError = ErrCycle)
            /\ (bothValid /\ ~closes /\ full) =>
                  (~r.ret /\ r.g.lastError = ErrEdgePool)
            /\ (bothValid /\ ~closes /\ ~full) => r.ret
            /\ (~r.ret /\ r.g.lastError = ErrEdgePool) =>
                  (bothValid /\ ~closes /\ full)

\* A bounded container with a full edge pool, an edge between distinct nodes
\* and room for one more node, whose last failure is a cycle: calls of all
\* three kinds meet the full pool from here.
C14_Witness ==
    /\ variant = "static"
    /\ dag.edgeCount = MaxEdges
    /\ dag.nodeCount \in 2 .. (MaxNodes - 1)
    /\ dag.lastError = ErrCycle

\* What each call the host can make now does to lastError: a failing call
\* writes the message of its own kind, an accepted insertion leaves lastError
\* alone, reset empties it.
CallsSetOwnError ==
    LET P == PathRel(variant, dag, "all") IN
    /\ \A data \in Payloads :
          LET r == AddNode(variant, dag, data) IN
          r.g.lastError = IF r.ret = npos THEN ErrNodePool ELSE dag.lastError
    /\ \A from \in IdxSet, to \in IdxSet, flags \in FlagSet :
          LET r == AddEdge(variant, dag, from, to, flags) IN
          r.g.lastError =
              IF r.ret THEN dag.lastError
              ELSE IF ~(Valid(variant, dag, from) /\ Valid(variant, dag, to))
                   THEN ErrInvalid
              ELSE IF to = from \/ <<to, from>> \in P THEN ErrCycle
              ELSE ErrEdgePool
    /\ Clear(variant, dag).lastError = nullptr

\* One step of the host and lastError: a query and the return of its result
\* leave the container alone; a step that adds a node or an edge leaves
\* lastError alone; a step that empties the container empties lastError; any
\* other step changes nothing but lastError and leaves a message in it.
LastErrorStep ==
    IF ~Idle \/ ~Idle' THEN dag' = dag
    ELSE \/ /\ NodeCount(variant, dag') = NodeCount(variant, dag) + 1
            /\ dag'.lastError = dag.lastError
         \/ /\ NodeCount(variant, dag') = NodeCount(variant, dag)
            /\ EdgeCount(variant, dag') = EdgeCount(variant, dag) + 1
            /\ dag'.lastError = dag.lastError
         \/ /\ NodeCount(variant, dag') = 0
            /\ EdgeCount(variant, dag') = 0
            /\ dag'.lastError = nullptr
         \/ /\ SameStorage(dag, dag')
            /\ dag'.lastError \in {ErrNodePool, ErrInvalid, ErrCycle, ErrEdgePool}

\* C15: after any sequence of calls lastError is the message of the most
\* recent failing createNode/createEdge since construction or the last reset,
\* and empty if there was none: it starts empty, a failing call overwrites it
\* with the message of its own kind, accepted insertions and the queries
\* (reachable on out-of-range indices included) leave it unchanged, and reset
\* empties it.
C15_LastErrorIsMostRecentFailure ==
    /\ [](Idle => CallsSetOwnError)
    /\ [][LastErrorStep]_vars

\* A bounded container that was reset (a slot beyond the node count still
\* holds an edge list) and then refused a self-loop on its one new node, just
\* after reachable was asked about an out-of-range index: the message of the
\* refusal is still there.
C15_Witness ==
    /\ variant = "static"
    /\ dag.nodeCount = 1
    /\ dag.nodes[1].firstEdge # npos
    /\ dag.lastError = ErrCycle
    /\ out.op = "reachable"
    /\ out.from = npos
    /\ ~out.ret

====
